---- MODULE Spec2Model ----
(***************************************************************************)
(* Verification model of the resume generator of career-agent.             *)
(*                                                                         *)
(* Spec        the convergence loop wired in                               *)
(*             src/agents/resume_generator/graph.py:                       *)
(*             select_resume_content -> generate_resume_pdf ->             *)
(*             route_feedback_edge -> provide_resume_feedback -> ...       *)
(* SpecRoute   route_feedback_edge applied to arbitrary states             *)
(* SpecLength  compute_resume_page_length applied to fill lists            *)
(* SpecReducer dict_reducer applied to keyed task results                  *)
(* SpecLegacy  the generate_pdf / optimize_content loop of                  *)
(*             nodes/generate_pdf.py and nodes/optimize_content.py         *)
(* SpecGraph   the whole graph of graph.py run superstep by superstep:     *)
(*             fan-out by Send, deferred nodes, reducers at the fan-in     *)
(* SpecTransform  transform_user_to_resume_data applied to users           *)
(* SpecAssemble   select_resume_content and                                *)
(*             _assemble_resume_from_selection applied to selections       *)
(* SpecRepo    Repository.create, get_by_id, update and delete on a table  *)
(* SpecMain    the cover-letter loop of the main agent (src/graph.py)      *)
(*                                                                         *)
(* Page lengths are floats in the source; here they are integers in        *)
(* hundredths of a page (1.27 pages = 127, the band width 0.07 = 7).       *)
(* Optional fields use None.                                               *)
(***************************************************************************)
EXTENDS Integers, Sequences, FiniteSets, TLC

None == -1

\* ---- bounds of the model ----
MaxIterCap == 4
MaxPages == 3
NumKeys == 2
MaxExps == 4
MaxListLen == 3
MaxRows == 3
MaxReplyLen == 3
MaxDrafts == 3

\* ---- input domains ----
\* resume_page_target values, in hundredths of a page
Targets == {100, 150, 200}
\* fill of one rendered page, in hundredths
FillChoices == {27, 97}
\* per-page fill lists a render can produce: 1..MaxPages pages, every page
\* before the last filled to the bottom margin of the template
FullPage == 97
RenderFills == {fills \in UNION {[1..n -> FillChoices] : n \in 1..MaxPages} :
                   \A i \in 1..(Len(fills) - 1) : fills[i] = FullPage}
\* page lengths route_feedback_edge is applied to: around the band of each target
RoutePageLengths == UNION {{t - 8, t - 7, t - 5, t, t + 1} : t \in Targets}
\* fills compute_resume_page_length is applied to
LengthFills == {27, 80, 97, 100}
\* keys and values of the mappings dict_reducer merges
Keys == 1..NumKeys
Values == {<<"a">>, <<"b">>}
\* ResumeExperience objects, and the numbers of points they start with
ExpIds == 1..MaxExps
PointChoices == {3, 5}
\* numbers of skills and lengths of the professional summary of an assembled resume
ResumeSizes == {[skills |-> 8, summary |-> 150], [skills |-> 12, summary |-> 250]}
\* words an optimization suggestion can contain
Keywords == {"summary", "experience", "bullet", "skill"}
\* outcomes of generate_resume_pdf's external calls
RenderOutcomes == {"ok", "template_error", "render_error", "count_error"}
\* outcomes of an LLM chain invocation that returns text
ChainOutcomes == {"text", "empty", "raise"}

VARIABLES
    \* --- InternalState of the resume generator graph ---
    pc,                            \* node or edge about to run
    resume,                        \* ResumeData (version number) or None
    resume_page_length,            \* float in hundredths, or None
    resume_path,                   \* path of the last PDF written (cycle number) or None
    resume_page_target,
    resume_feedback,               \* feedback text (iteration that produced it) or None
    feedback_loop_iterations,
    feedback_loop_max_iterations,
    user,                          \* user record loaded by read_db_content, or None
    word_count,                    \* word count of the assembled resume, or None
    \* --- observations of the run (history) ---
    cycle_count,                   \* render/measure cycles started
    last_cycle,                    \* record of the last render cycle
    min_measured,                  \* smallest page length measured so far, or None
    min_docs,                      \* resume versions measured at min_measured
    all_over,                      \* every cycle so far measured a length > target
    seen_within,                   \* a cycle before the last measured a length <= target
    \* --- route_feedback_edge as a function ---
    rt_in, rt_out,
    \* --- compute_resume_page_length as a function ---
    pl_in, pl_out,
    \* --- dict_reducer as a function ---
    red_acc, red_last, red_before, red_first, red_n,
    \* --- state of the nodes generate_pdf and optimize_content ---
    lg_pc,                         \* node or edge about to run
    resume_data,                   \* ResumeData being processed (NoDoc if None)
    exp_points,                    \* number of points of each ResumeExperience object
    page_length,                   \* pages, int
    optimization_attempts,
    is_optimizing,
    best_resume_data,              \* NoDoc if None
    best_page_length,              \* pages, or None
    best_pdf_path,                 \* path or None
    resume_pdf_path,               \* path or None
    resume_text,                   \* str() of a ResumeData (NoText if None)
    optimization_feedback,
    lg_cycle_count,                \* generate_pdf invocations so far
    lg_last,                       \* record of the last generate_pdf invocation
    lg_min_pages,                  \* smallest page count measured so far, or None
    lg_all_over,                   \* every invocation so far measured more than one page
    lg_best_content,               \* content rendered when the best was recorded
    \* --- the graph run by the scheduler ---
    run,                           \* "running", "END" or "raised"
    raised,                        \* node whose exception ended the run, or "none"
    db_user,                       \* users.get_by_id(user_id): a user or None
    db_experience,                 \* ids of experiences.get_by_user_id(user_id)
    extract_results,               \* per extraction task: what the extraction chain does
    summary_results,               \* per summarization task: what the summarization chain does
    experience,                    \* state.experience: ids loaded
    skills_and_accomplishments,    \* dict keyed by experience id
    experience_summary,            \* dict keyed by experience id
    responses_summary,             \* None, 0 (empty string) or 1
    professional_summary,          \* None or 1
    tasks,                         \* tasks of the current superstep
    done,                          \* tasks of the superstep that have returned
    trigger,                       \* per node: state of its branch:to channel
    pending,                       \* writes to plain channels made in this superstep
    saa_writes,                    \* writes to skills_and_accomplishments, as returned
    summary_writes,                \* writes to experience_summary, as returned
    branch_writes,                 \* nodes whose branch:to channel was written
    sends,                         \* Send tasks produced in this superstep
    invocations,                   \* per task: times it has returned
    select_read,                   \* what select_resume_content saw when it last started
    dispatched,                    \* the list of Sends returned by map_experience_edge
    state_objects,                 \* current_experience_id of each state object of the dispatch
    \* --- transform_user_to_resume_data as a function ---
    tr_user,                       \* the User object passed in user_data
    tr_user_before,                \* its fields before the call
    tr_experience_data,            \* list of Experience rows
    tr_op,                         \* "none" or "transform_user_to_resume_data"
    tr_raised,                     \* the call raised ValueError
    tr_resume,                     \* ResumeData returned (NoResume if none)
    \* --- select_resume_content / _assemble_resume_from_selection as a function ---
    as_user,                       \* state.user
    as_experience,                 \* ids of state.experience
    as_sel,                        \* selection returned by the LLM chain
    as_page_target,                \* state.resume_page_target
    as_page_length,                \* state.resume_page_length of the previous cycle, or None
    as_feedback,                   \* state.resume_feedback
    as_op,                         \* "none" or "select_resume_content"
    as_resume,                     \* ResumeData returned (NoResume if none)
    \* --- a Repository over one table ---
    rp_table,                      \* the rows of the table: id -> stored fields
    rp_before,                     \* the rows before the last operation
    rp_live,                       \* id -> fields last returned by create/update, until deleted
    rp_op,                         \* "none", "create", "get_by_id", "update" or "delete"
    rp_arg,                        \* the id passed to the last operation (None for a new object)
    rp_raised,                     \* the last operation raised
    rp_obj,                        \* object returned by create/get_by_id/update (NoRow if None)
    rp_deleted,                    \* value returned by delete
    \* --- history of the reviewer calls of the convergence loop ---
    fb_outcome,                    \* outcome of the last reviewer call ("none" before the first)
    fb_last_text,                  \* feedback of the last call that returned text, or None
    \* --- the cover-letter loop of the main agent ---
    mn_pc,                         \* node or edge to run next, "END" or "raised"
    cover_letter,                  \* None, 0 (empty text) or the number of the draft
    cover_letter_feedback,         \* optional text: [none, val]
    mn_asked,                      \* the last get_feedback asked the user
    mn_reply,                      \* the reply it received
    mn_drafts                      \* write_cover_letter invocations so far

graphVars == <<pc, resume, resume_page_length, resume_path, resume_page_target,
               resume_feedback, feedback_loop_iterations, feedback_loop_max_iterations,
               user, word_count>>
histVars == <<cycle_count, last_cycle, min_measured, min_docs, all_over,
              seen_within>>
routeVars == <<rt_in, rt_out>>
lengthVars == <<pl_in, pl_out>>
reducerVars == <<red_acc, red_last, red_before, red_first, red_n>>
legacyVars == <<lg_pc, resume_data, exp_points, page_length, optimization_attempts,
                is_optimizing, best_resume_data, best_page_length, best_pdf_path,
                resume_pdf_path, resume_text, optimization_feedback, lg_cycle_count,
                lg_last, lg_min_pages, lg_all_over, lg_best_content>>
runVars == <<run, raised, db_user, db_experience, extract_results, summary_results,
             experience, skills_and_accomplishments, experience_summary,
             responses_summary, professional_summary, tasks, done, trigger, pending,
             saa_writes, summary_writes, branch_writes, sends, invocations, select_read,
             dispatched, state_objects>>
transformVars == <<tr_user, tr_user_before, tr_experience_data, tr_op, tr_raised,
                   tr_resume>>
assembleVars == <<as_user, as_experience, as_sel, as_page_target, as_page_length,
                  as_feedback, as_op, as_resume>>
repoVars == <<rp_table, rp_before, rp_live, rp_op, rp_arg, rp_raised, rp_obj, rp_deleted>>
feedbackVars == <<fb_outcome, fb_last_text>>
mainVars == <<mn_pc, cover_letter, cover_letter_feedback, mn_asked, mn_reply, mn_drafts>>
moreVars == <<repoVars, feedbackVars, mainVars>>
extraVars == <<runVars, transformVars, assembleVars, moreVars>>
vars == <<graphVars, histVars, routeVars, lengthVars, reducerVars, legacyVars, extraVars>>

\* Record of one render cycle: the resume rendered (doc), the page length the
\* node recorded (measured, None if it recorded none), what the renderer and the
\* PDF reader produced (written: the file, pages: its page count, aggregate:
\* the aggregate length of its pages; None if not produced), and the iteration
\* counter and page length in the state when the cycle started.
NoCycle == [n |-> 0, doc |-> None, measured |-> None, written |-> None, pages |-> None,
            aggregate |-> None, iter |-> None, before |-> None]

Min(a, b) == IF a <= b THEN a ELSE b

\* A partial state update returned by a node: a function from the names of
\* the fields it sets to their new values.
EmptyUpdate == [f \in {} |-> None]

Apply(old, upd, field) == IF field \in DOMAIN upd THEN upd[field] ELSE old

(***************************************************************************)
(* Pure functions                                                          *)
(***************************************************************************)

\* Variant of compute_resume_page_length that counts every page as full.
compute_resume_page_length_page_count(percentages) ==
    Len(percentages) * 100

\* Aggregate page length of a list of per-page fill fractions.
compute_resume_page_length(percentages) ==
    IF Len(percentages) = 0
    THEN 0
    ELSE (Len(percentages) - 1) * 100 + percentages[Len(percentages)]

\* Variant of route_feedback_edge whose band excludes its lower bound.
route_feedback_edge_open_band(iterations, max_iterations, state_page_length, target) ==
    IF iterations > max_iterations
    THEN "END"
    ELSE IF state_page_length = None \/ target = None
    THEN "provide_resume_feedback"
    ELSE LET lower_bound == target - 7
             meets_target == (state_page_length > lower_bound)
                             /\ (state_page_length <= target)
         IN  IF meets_target THEN "END" ELSE "provide_resume_feedback"

\* graph.py route_feedback_edge: the conditional edge after generate_resume_pdf.
route_feedback_edge(iterations, max_iterations, state_page_length, target) ==
    IF iterations > max_iterations
    THEN "END"
    ELSE IF state_page_length = None \/ target = None
    THEN "provide_resume_feedback"
    ELSE LET lower_bound == target - 7
             meets_target == (state_page_length >= lower_bound)
                             /\ (state_page_length <= target)
         IN  IF meets_target THEN "END" ELSE "provide_resume_feedback"

\* Optional[dict]: none, or a mapping from keys to values.
EmptyDict == [k \in {} |-> <<>>]
NoneDict == [none |-> TRUE, val |-> EmptyDict]
SomeDict(d) == [none |-> FALSE, val |-> d]

\* Variant of dict_reducer that appends to the value of a key already present.
dict_reducer_append(a, b) ==
    LET a0 == IF a.none THEN EmptyDict ELSE a.val
    IN  IF b.none
        THEN a0
        ELSE [k \in (DOMAIN a0) \cup (DOMAIN b.val) |->
                 IF k \in DOMAIN b.val
                 THEN (IF k \in DOMAIN a0 THEN a0[k] \o b.val[k] ELSE b.val[k])
                 ELSE a0[k]]

\* state.py dict_reducer: a.update(b), with None treated as empty.
dict_reducer(a, b) ==
    LET a0 == IF a.none THEN EmptyDict ELSE a.val
    IN  IF b.none
        THEN a0
        ELSE [k \in (DOMAIN a0) \cup (DOMAIN b.val) |->
                 IF k \in DOMAIN b.val THEN b.val[k] ELSE a0[k]]

(***************************************************************************)
(* Nodes of the resume generator graph, as partial state updates           *)
(***************************************************************************)

\* select_resume_content: chain_outcome is the result of the LLM call,
\* new_resume the ResumeData assembled from its selection.
select_resume_content(state_user, chain_outcome, new_resume) ==
    IF state_user = None
    THEN EmptyUpdate
    ELSE IF chain_outcome = "raise"
    THEN EmptyUpdate
    ELSE [resume |-> new_resume, word_count |-> new_resume]

\* Variant of generate_resume_pdf that reports a page length of 0 when the
\* renderer raises.
generate_resume_pdf_zero_on_error(state_resume, outcome, fills, pdf_path) ==
    IF state_resume = None
    THEN EmptyUpdate
    ELSE IF outcome = "template_error"
    THEN EmptyUpdate
    ELSE IF outcome = "render_error"
    THEN [resume_page_length |-> 0]
    ELSE IF outcome = "count_error"
    THEN [resume_path |-> pdf_path]
    ELSE [resume_path |-> pdf_path, resume_page_length |-> Len(fills) * 100]

\* generate_resume_pdf: outcome is what the template lookup, the renderer and
\* the PDF reader do; fills are the rendered pages; pdf_path the file written.
generate_resume_pdf(state_resume, outcome, fills, pdf_path) ==
    IF state_resume = None
    THEN EmptyUpdate
    ELSE IF outcome = "template_error"
    THEN EmptyUpdate
    ELSE IF outcome = "render_error"
    THEN EmptyUpdate
    ELSE IF outcome = "count_error"
    THEN [resume_path |-> pdf_path]
    ELSE LET page_count == Len(fills)
         IN  [resume_path |-> pdf_path, resume_page_length |-> page_count * 100]

\* Variant of provide_resume_feedback that does not count a reviewer call that
\* raised.
provide_resume_feedback_uncounted_failure(chain_outcome, feedback) ==
    IF chain_outcome = "raise"
    THEN EmptyUpdate
    ELSE IF chain_outcome = "empty"
    THEN [feedback_loop_iterations |-> 1]
    ELSE [resume_feedback |-> feedback, feedback_loop_iterations |-> 1]

\* Variant of provide_resume_feedback that stores the reviewer's text even
\* when it is empty (0 stands for the empty text).
provide_resume_feedback_stores_empty(chain_outcome, feedback) ==
    IF chain_outcome = "raise"
    THEN [feedback_loop_iterations |-> 1]
    ELSE [resume_feedback |-> IF chain_outcome = "empty" THEN 0 ELSE feedback,
          feedback_loop_iterations |-> 1]

\* provide_resume_feedback: chain_outcome is the result of the reviewer call.
\* feedback_loop_iterations is reduced by addition.
provide_resume_feedback(chain_outcome, feedback) ==
    IF chain_outcome = "raise"
    THEN [feedback_loop_iterations |-> 1]
    ELSE IF chain_outcome = "empty"
    THEN [feedback_loop_iterations |-> 1]
    ELSE [resume_feedback |-> feedback, feedback_loop_iterations |-> 1]

(***************************************************************************)
(* The convergence loop                                                    *)
(***************************************************************************)

NoDoc == [id |-> 0, exps |-> <<>>, skills |-> 0, summary |-> 0]
NoText == [points |-> <<>>, skills |-> 0, summary |-> 0]

NoLegacyCycle == [n |-> 0, doc |-> NoDoc, content |-> NoText, pages |-> None,
                  pdf_path |-> None, final_pdf_path |-> None, optimizing |-> FALSE]

LegacyDefaults ==
    /\ lg_pc = "END"
    /\ resume_data = NoDoc
    /\ exp_points = [e \in ExpIds |-> 0]
    /\ page_length = 0
    /\ optimization_attempts = 0
    /\ is_optimizing = FALSE
    /\ best_resume_data = NoDoc
    /\ best_page_length = None
    /\ best_pdf_path = None
    /\ resume_pdf_path = None
    /\ resume_text = NoText
    /\ optimization_feedback = ""
    /\ lg_cycle_count = 0
    /\ lg_last = NoLegacyCycle
    /\ lg_min_pages = None
    /\ lg_all_over = TRUE
    /\ lg_best_content = NoText

(***************************************************************************)
(* The graph built in graph.py: nodes, edges, tasks                        *)
(***************************************************************************)

GraphNodes == {"read_db_content", "extract_skills_and_accomplishments",
               "summarize_experience", "summarize_responses",
               "create_professional_summary", "select_resume_content",
               "generate_resume_pdf", "provide_resume_feedback"}

\* Nodes added with defer=True: their branch:to channel becomes available
\* only when a superstep ends with no other node triggered.
Deferred == {"create_professional_summary", "select_resume_content"}

\* Nodes reached through Send, one task per experience.
SendNodes == {"extract_skills_and_accomplishments", "summarize_experience"}

\* The nodes of the convergence loop.
LoopNodes == {"select_resume_content", "generate_resume_pdf", "provide_resume_feedback"}

\* Variant of Edges in which select_resume_content also leads to
\* provide_resume_feedback.
EdgesWithShortcut ==
    {<<"read_db_content", "summarize_responses">>,
     <<"extract_skills_and_accomplishments", "select_resume_content">>,
     <<"summarize_responses", "create_professional_summary">>,
     <<"summarize_experience", "create_professional_summary">>,
     <<"create_professional_summary", "select_resume_content">>,
     <<"select_resume_content", "generate_resume_pdf">>,
     <<"select_resume_content", "provide_resume_feedback">>,
     <<"provide_resume_feedback", "select_resume_content">>}

\* builder.add_edge(start, end), START excluded.
Edges ==
    {<<"read_db_content", "summarize_responses">>,
     <<"extract_skills_and_accomplishments", "select_resume_content">>,
     <<"summarize_responses", "create_professional_summary">>,
     <<"summarize_experience", "create_professional_summary">>,
     <<"create_professional_summary", "select_resume_content">>,
     <<"select_resume_content", "generate_resume_pdf">>,
     <<"provide_resume_feedback", "select_resume_content">>}

\* A task of a superstep: a node, and the experience id for a Send (else 0).
Task(n, e) == [node |-> n, exp |-> e]

AllTasks == {Task(n, 0) : n \in GraphNodes \ SendNodes}
            \cup {Task(n, e) : n \in SendNodes, e \in Keys}

\* What an LLM chain does for one experience: it raises, or returns val.
ChainFailed == [ok |-> FALSE, val |-> <<>>]
ExtractResults == {ChainFailed} \cup {[ok |-> TRUE, val |-> v] : v \in Values}
SummaryResults == {ChainFailed, [ok |-> TRUE, val |-> <<"a">>]}

JobDescription == "job"

NoSelectRead == [n |-> 0, skills_and_accomplishments |-> EmptyDict,
                 professional_summary |-> None, together |-> {}]

RunDefaults ==
    /\ run = "END"
    /\ raised = "none"
    /\ db_user = None
    /\ db_experience = {}
    /\ extract_results = [e \in Keys |-> ChainFailed]
    /\ summary_results = [e \in Keys |-> ChainFailed]
    /\ experience = {}
    /\ skills_and_accomplishments = SomeDict(EmptyDict)
    /\ experience_summary = SomeDict(EmptyDict)
    /\ responses_summary = None
    /\ professional_summary = None
    /\ tasks = {}
    /\ done = {}
    /\ trigger = [n \in GraphNodes |-> "empty"]
    /\ pending = EmptyUpdate
    /\ saa_writes = <<>>
    /\ summary_writes = <<>>
    /\ branch_writes = {}
    /\ sends = {}
    /\ invocations = [t \in AllTasks |-> 0]
    /\ select_read = NoSelectRead
    /\ dispatched = <<>>
    /\ state_objects = <<None>>

\* A User row: required first_name and last_name, optional email ("" when
\* missing).
NoUser == [none |-> TRUE, first_name |-> "", last_name |-> "", email |-> ""]
Users == {[none |-> FALSE, first_name |-> f, last_name |-> l, email |-> m] :
             f \in {"", "Ann"}, l \in {"", "Lee"}, m \in {"", "ann@example.org"}}

\* A ResumeData: name, email, experience entries and skills; phone,
\* linkedin_url, education and certifications are copied in the same way as
\* email and are left out.
NoResume == [none |-> TRUE, name |-> <<>>, email |-> "", experience |-> <<>>,
             skills |-> <<>>]

NoSelection == [experiences |-> <<>>, points |-> 0, selected_skills |-> <<>>]

TransformDefaults ==
    /\ tr_user = NoUser
    /\ tr_user_before = NoUser
    /\ tr_experience_data = <<>>
    /\ tr_op = "none"
    /\ tr_raised = FALSE
    /\ tr_resume = NoResume

AssembleDefaults ==
    /\ as_user = NoUser
    /\ as_experience = {}
    /\ as_sel = NoSelection
    /\ as_page_target = 100
    /\ as_page_length = None
    /\ as_feedback = ""
    /\ as_op = "none"
    /\ as_resume = NoResume

\* A stored object: its id and its fields; NoRow stands for None.
NoRow == [id |-> None, val |-> ""]
EmptyTable == [i \in {} |-> ""]

RepoDefaults ==
    /\ rp_table = EmptyTable
    /\ rp_before = EmptyTable
    /\ rp_live = EmptyTable
    /\ rp_op = "none"
    /\ rp_arg = None
    /\ rp_raised = FALSE
    /\ rp_obj = NoRow
    /\ rp_deleted = FALSE

FeedbackDefaults == fb_outcome = "none" /\ fb_last_text = None

\* An optional text: None, or a list of characters.
NoneText == [none |-> TRUE, val |-> <<>>]
SomeText(t) == [none |-> FALSE, val |-> t]

MainDefaults ==
    /\ mn_pc = "END"
    /\ cover_letter = None
    /\ cover_letter_feedback = NoneText
    /\ mn_asked = FALSE
    /\ mn_reply = <<>>
    /\ mn_drafts = 0

MoreDefaults == RepoDefaults /\ FeedbackDefaults /\ MainDefaults

ExtraDefaults == RunDefaults /\ TransformDefaults /\ AssembleDefaults /\ MoreDefaults

\* Initial value of the iteration counter of InternalState.
feedback_loop_iterations_default == 0

GraphDefaults ==
    /\ pc = "END"
    /\ resume = None
    /\ resume_page_length = None
    /\ resume_path = None
    /\ resume_page_target = 100
    /\ resume_feedback = None
    /\ feedback_loop_iterations = 0
    /\ feedback_loop_max_iterations = 0
    /\ user = None
    /\ word_count = None
    /\ cycle_count = 0
    /\ last_cycle = NoCycle
    /\ min_measured = None
    /\ min_docs = {}
    /\ all_over = TRUE
    /\ seen_within = FALSE

RouteDefaults == rt_in = [iter |-> 0, max |-> 0, pl |-> None, target |-> None] /\ rt_out = "none"
LengthDefaults == pl_in = <<>> /\ pl_out = None
ReducerDefaults ==
    /\ red_acc = NoneDict
    /\ red_last = NoneDict
    /\ red_before = NoneDict
    /\ red_first = NoneDict
    /\ red_n = 0

\* The state on entry to the loop: read_db_content has loaded the user, no
\* resume has been assembled or measured, no feedback has been given.
Init ==
    /\ pc = "select_resume_content"
    /\ resume = None
    /\ resume_page_length = None
    /\ resume_path = None
    /\ resume_page_target \in Targets
    /\ resume_feedback = None
    /\ feedback_loop_iterations = feedback_loop_iterations_default
    /\ feedback_loop_max_iterations \in 0..MaxIterCap
    /\ user = 1
    /\ word_count = None
    /\ cycle_count = 0
    /\ last_cycle = NoCycle
    /\ min_measured = None
    /\ min_docs = {}
    /\ all_over = TRUE
    /\ seen_within = FALSE
    /\ RouteDefaults
    /\ LengthDefaults
    /\ ReducerDefaults
    /\ LegacyDefaults
    /\ ExtraDefaults

SelectResumeContent ==
    /\ pc = "select_resume_content"
    /\ \E chain_outcome \in {"ok", "raise"} :
         LET upd == select_resume_content(user, chain_outcome, cycle_count + 1)
         IN  /\ resume' = Apply(resume, upd, "resume")
             /\ word_count' = Apply(word_count, upd, "word_count")
    /\ pc' = "generate_resume_pdf"
    /\ UNCHANGED <<resume_page_length, resume_path, resume_page_target, resume_feedback,
                   feedback_loop_iterations, feedback_loop_max_iterations, user>>
    /\ UNCHANGED <<histVars, routeVars, lengthVars, reducerVars, legacyVars, extraVars>>

GenerateResumePdf ==
    /\ pc = "generate_resume_pdf"
    /\ \E outcome \in RenderOutcomes, fills \in RenderFills :
         /\ (outcome # "ok" \/ resume = None) => fills = <<27>>
         /\ LET n == cycle_count + 1
                upd == generate_resume_pdf(resume, outcome, fills, n)
                measured == Apply(None, upd, "resume_page_length")
                written == resume # None /\ outcome \in {"ok", "count_error"}
                counted == resume # None /\ outcome = "ok"
            IN  /\ resume_path' = Apply(resume_path, upd, "resume_path")
                /\ resume_page_length' = Apply(resume_page_length, upd, "resume_page_length")
                /\ cycle_count' = n
                /\ last_cycle' =
                       [n |-> n, doc |-> resume,
                        measured |-> measured,
                        written |-> IF written THEN n ELSE None,
                        pages |-> IF counted THEN Len(fills) ELSE None,
                        aggregate |-> IF counted THEN compute_resume_page_length(fills)
                                      ELSE None,
                        iter |-> feedback_loop_iterations,
                        before |-> resume_page_length]
                /\ seen_within' = (seen_within \/ (last_cycle.measured # None
                                      /\ last_cycle.measured <= resume_page_target))
                /\ all_over' = (all_over /\ measured # None /\ measured > resume_page_target)
                /\ min_measured' = IF measured = None THEN min_measured
                                   ELSE IF min_measured = None THEN measured
                                   ELSE Min(min_measured, measured)
                /\ min_docs' = IF measured = None THEN min_docs
                               ELSE IF min_measured = None \/ measured < min_measured
                               THEN {resume}
                               ELSE IF measured = min_measured THEN min_docs \cup {resume}
                               ELSE min_docs
    /\ pc' = "route_feedback_edge"
    /\ UNCHANGED <<resume, resume_page_target, resume_feedback, feedback_loop_iterations,
                   feedback_loop_max_iterations, user, word_count>>
    /\ UNCHANGED <<routeVars, lengthVars, reducerVars, legacyVars, extraVars>>

RouteFeedbackEdge ==
    /\ pc = "route_feedback_edge"
    /\ pc' = route_feedback_edge(feedback_loop_iterations, feedback_loop_max_iterations,
                                 resume_page_length, resume_page_target)
    /\ UNCHANGED <<resume, resume_page_length, resume_path, resume_page_target,
                   resume_feedback, feedback_loop_iterations,
                   feedback_loop_max_iterations, user, word_count>>
    /\ UNCHANGED <<histVars, routeVars, lengthVars, reducerVars, legacyVars, extraVars>>

ProvideResumeFeedback ==
    /\ pc = "provide_resume_feedback"
    /\ \E chain_outcome \in ChainOutcomes :
         LET upd == provide_resume_feedback(chain_outcome, cycle_count)
         IN  /\ resume_feedback' = Apply(resume_feedback, upd, "resume_feedback")
             /\ feedback_loop_iterations' =
                    feedback_loop_iterations + Apply(0, upd, "feedback_loop_iterations")
             /\ fb_outcome' = chain_outcome
             /\ fb_last_text' = IF chain_outcome = "text" THEN cycle_count ELSE fb_last_text
    /\ pc' = "select_resume_content"
    /\ UNCHANGED <<resume, resume_page_length, resume_path, resume_page_target,
                   feedback_loop_max_iterations, user, word_count>>
    /\ UNCHANGED <<histVars, routeVars, lengthVars, reducerVars, legacyVars>>
    /\ UNCHANGED <<runVars, transformVars, assembleVars, repoVars, mainVars>>

Next ==
    \/ SelectResumeContent
    \/ GenerateResumePdf
    \/ RouteFeedbackEdge
    \/ ProvideResumeFeedback

Spec == Init /\ [][Next]_vars

(***************************************************************************)
(* route_feedback_edge applied to arbitrary states                         *)
(***************************************************************************)

InitRoute ==
    /\ GraphDefaults
    /\ rt_in \in [iter : 0..(MaxIterCap + 1), max : 0..MaxIterCap,
                  pl : RoutePageLengths \cup {None}, target : Targets \cup {None}]
    /\ rt_out = "none"
    /\ LengthDefaults
    /\ ReducerDefaults
    /\ LegacyDefaults
    /\ ExtraDefaults

RouteApply ==
    /\ rt_out = "none"
    /\ rt_out' = route_feedback_edge(rt_in.iter, rt_in.max, rt_in.pl, rt_in.target)
    /\ UNCHANGED <<rt_in, graphVars, histVars, lengthVars, reducerVars, legacyVars, extraVars>>

NextRoute == RouteApply

SpecRoute == InitRoute /\ [][NextRoute]_vars

(***************************************************************************)
(* compute_resume_page_length applied to fill lists                        *)
(***************************************************************************)

InitLength ==
    /\ GraphDefaults
    /\ RouteDefaults
    /\ pl_in \in UNION {[1..n -> LengthFills] : n \in 0..MaxPages}
    /\ pl_out = None
    /\ ReducerDefaults
    /\ LegacyDefaults
    /\ ExtraDefaults

LengthApply ==
    /\ pl_out = None
    /\ pl_out' = compute_resume_page_length(pl_in)
    /\ UNCHANGED <<pl_in, graphVars, histVars, routeVars, reducerVars, legacyVars, extraVars>>

NextLength == LengthApply

SpecLength == InitLength /\ [][NextLength]_vars

(***************************************************************************)
(* dict_reducer applied to keyed task results                              *)
(***************************************************************************)

Dicts == UNION {[S -> Values] : S \in SUBSET Keys}
OptDicts == {NoneDict} \cup {SomeDict(d) : d \in Dicts}

InitReducer ==
    /\ GraphDefaults
    /\ RouteDefaults
    /\ LengthDefaults
    /\ red_acc \in OptDicts
    /\ red_last = NoneDict
    /\ red_before = NoneDict
    /\ red_first = NoneDict
    /\ red_n = 0
    /\ LegacyDefaults
    /\ ExtraDefaults

\* A task result b is merged into the mapping held by the state.
Merge ==
    /\ \E b \in OptDicts :
         /\ red_last' = b
         /\ red_acc' = SomeDict(dict_reducer(red_acc, b))
    /\ red_before' = red_acc
    /\ red_first' = red_acc'
    /\ red_n' = 1
    /\ UNCHANGED <<graphVars, histVars, routeVars, lengthVars, legacyVars, extraVars>>

\* The result merged last is merged a second time.
MergeAgain ==
    /\ red_n = 1
    /\ red_acc' = SomeDict(dict_reducer(red_acc, red_last))
    /\ red_n' = 2
    /\ UNCHANGED <<red_last, red_before, red_first>>
    /\ UNCHANGED <<graphVars, histVars, routeVars, lengthVars, legacyVars, extraVars>>

NextReducer == Merge \/ MergeAgain

SpecReducer == InitReducer /\ [][NextReducer]_vars

\* The acceptance band [target - 0.07, target].
InBand(len, target) ==
    /\ len # None
    /\ target # None
    /\ target - 7 <= len
    /\ len <= target

(***************************************************************************)
(* The nodes generate_pdf and optimize_content                             *)
(*                                                                         *)
(* A ResumeData is a record: its version (id, 0 for None), the list of the *)
(* ResumeExperience objects it refers to, its number of skills and the     *)
(* length of its professional summary.  ResumeExperience objects are       *)
(* shared between ResumeData copies; exp_points holds their points.        *)
(***************************************************************************)

\* str(resume_data): the content of a ResumeData at the time of the call.
Content(doc, points) ==
    [points |-> [i \in 1..Len(doc.exps) |-> points[doc.exps[i]]],
     skills |-> doc.skills,
     summary |-> doc.summary]

Override(f, g) == [k \in (DOMAIN f) \cup (DOMAIN g) |-> IF k \in DOMAIN g THEN g[k] ELSE f[k]]

MaxOptimizationAttempts == 4

\* Variant of ShouldUpdateBest where a tie replaces the best in fix-up mode
\* too.
ShouldUpdateBestOnAnyTie(state_best_page_length, estimated_pages, optimizing) ==
    IF state_best_page_length = None
    THEN TRUE
    ELSE estimated_pages <= state_best_page_length

\* Variant of ShouldUpdateBest that records every rendered candidate.
ShouldUpdateBestAlways(state_best_page_length, estimated_pages, optimizing) ==
    TRUE

\* Variant of ShouldUpdateBest that keeps the first candidate recorded.
ShouldUpdateBestFirstOnly(state_best_page_length, estimated_pages, optimizing) ==
    state_best_page_length = None

\* generate_pdf, best option tracking: whether the candidate just rendered
\* becomes the best.
ShouldUpdateBest(state_best_page_length, estimated_pages, optimizing) ==
    IF state_best_page_length = None
    THEN TRUE
    ELSE IF estimated_pages < state_best_page_length
    THEN TRUE
    ELSE estimated_pages = state_best_page_length /\ ~optimizing

\* generate_pdf: st is the state read, render the outcome of the renderer
\* ("ok", "raise": the draft render raises, "raise_final": the render of the
\* final-named copy raises), estimated_pages the page count, pdf_path and
\* final_pdf_path the files written.
generate_pdf(st, render, estimated_pages, pdf_path, final_pdf_path) ==
    IF st.resume_data.id = 0
    THEN [page_length |-> 0]
    ELSE IF render = "raise"
    THEN [page_length |-> 0]
    ELSE
    LET should_update_best ==
            ShouldUpdateBest(st.best_page_length, estimated_pages, st.is_optimizing)
        best_updates ==
            IF should_update_best
            THEN [best_resume_data |-> st.resume_data,
                  best_page_length |-> estimated_pages,
                  best_pdf_path |-> pdf_path]
            ELSE EmptyUpdate
        best_resume_data_l == IF should_update_best THEN st.resume_data
                              ELSE st.best_resume_data
        best_page_length_l == IF should_update_best THEN estimated_pages
                              ELSE st.best_page_length
        best_pdf_path_l == IF should_update_best THEN pdf_path ELSE st.best_pdf_path
        have_best == best_resume_data_l.id # 0 /\ best_page_length_l # None
        selected_resume_data == IF have_best THEN best_resume_data_l ELSE st.resume_data
        selected_page_length == IF have_best THEN best_page_length_l ELSE estimated_pages
        selected_pdf_path_0 ==
            IF have_best /\ best_pdf_path_l # None THEN best_pdf_path_l ELSE pdf_path
        final_copy == st.is_optimizing
                      /\ (selected_page_length = 1
                          \/ st.optimization_attempts >= MaxOptimizationAttempts)
        selected_pdf_path == IF final_copy THEN final_pdf_path ELSE selected_pdf_path_0
        outward == [page_length |-> selected_page_length,
                    resume_pdf_path |-> selected_pdf_path,
                    resume_text |-> Content(selected_resume_data, st.exp_points)]
        fallback ==
            IF /\ st.is_optimizing
               /\ st.optimization_attempts >= MaxOptimizationAttempts
               /\ estimated_pages > 1
               /\ have_best
            THEN [resume_data |-> best_resume_data_l,
                  page_length |-> best_page_length_l,
                  resume_pdf_path |-> IF best_pdf_path_l # None THEN best_pdf_path_l
                                      ELSE pdf_path,
                  resume_text |-> Content(best_resume_data_l, st.exp_points)]
            ELSE EmptyUpdate
    IN  IF final_copy /\ render = "raise_final"
        THEN [page_length |-> 0]
        ELSE Override(Override(best_updates, outward), fallback)

\* optimize_content._apply_optimizations: the copy shares the ResumeExperience
\* objects of resume_data (list.copy() is shallow), so truncating their points
\* changes them in every ResumeData that refers to them.  keywords are the
\* words found in the suggestions.
apply_optimizations_doc(doc, keywords, new_id) ==
    [id |-> new_id,
     exps |-> IF "experience" \in keywords /\ Len(doc.exps) > 3
              THEN SubSeq(doc.exps, 1, 3) ELSE doc.exps,
     skills |-> IF "skill" \in keywords /\ doc.skills > 10 THEN 10 ELSE doc.skills,
     summary |-> IF "summary" \in keywords /\ doc.summary > 200 THEN 203 ELSE doc.summary]

apply_optimizations_points(doc, points, keywords) ==
    [e \in DOMAIN points |->
        IF /\ ("experience" \in keywords \/ "bullet" \in keywords)
           /\ \E i \in 1..Len(doc.exps) : doc.exps[i] = e
           /\ points[e] > 3
        THEN 3 ELSE points[e]]

\* optimize_content: llm is the outcome of the LLM call, keywords the words of
\* the suggestions parsed from its response.
optimize_content(st, llm, keywords, new_id) ==
    IF st.resume_data.id = 0
    THEN [optimization_attempts |-> st.optimization_attempts + 1]
    ELSE IF llm = "raise"
    THEN [optimization_attempts |-> st.optimization_attempts + 1,
          is_optimizing |-> TRUE,
          optimization_feedback |-> "error"]
    ELSE [resume_data |-> apply_optimizations_doc(st.resume_data, keywords, new_id),
          exp_points |-> apply_optimizations_points(st.resume_data, st.exp_points, keywords),
          optimization_attempts |-> st.optimization_attempts + 1,
          is_optimizing |-> TRUE,
          optimization_feedback |-> IF keywords = {} THEN "none applied" ELSE "applied"]

\* The edge after generate_pdf (convergence controller): stop when the page
\* length is accepted for the one-page target or the attempts are used up.
route_optimization_edge(state_page_length, attempts) ==
    IF InBand(state_page_length * 100, 100)
    THEN "END"
    ELSE IF attempts < MaxOptimizationAttempts
    THEN "optimize_content"
    ELSE "END"

LegacyState ==
    [resume_data |-> resume_data, exp_points |-> exp_points, page_length |-> page_length,
     optimization_attempts |-> optimization_attempts, is_optimizing |-> is_optimizing,
     best_resume_data |-> best_resume_data, best_page_length |-> best_page_length,
     best_pdf_path |-> best_pdf_path]

\* The state after assemble_resume: a ResumeData (or None when assembly
\* failed), nothing rendered, no best candidate.
InitLegacy ==
    /\ GraphDefaults
    /\ ExtraDefaults
    /\ RouteDefaults
    /\ LengthDefaults
    /\ ReducerDefaults
    /\ lg_pc = "generate_pdf"
    /\ \E n \in {1, MaxExps}, size \in ResumeSizes :
         \/ resume_data = [id |-> 1, exps |-> [i \in 1..n |-> i],
                           skills |-> size.skills, summary |-> size.summary]
         \/ resume_data = NoDoc /\ n = 1 /\ size.skills = 8
    /\ \E first \in PointChoices, rest \in PointChoices :
         /\ Len(resume_data.exps) <= 1 => rest = 3
         /\ Len(resume_data.exps) = 0 => first = 3
         /\ exp_points = [e \in ExpIds |-> IF e = 1 THEN first ELSE rest]
    /\ page_length = 0
    /\ optimization_attempts = 0
    /\ is_optimizing = FALSE
    /\ best_resume_data = NoDoc
    /\ best_page_length = None
    /\ best_pdf_path = None
    /\ resume_pdf_path = None
    /\ resume_text = NoText
    /\ optimization_feedback = ""
    /\ lg_cycle_count = 0
    /\ lg_last = NoLegacyCycle
    /\ lg_min_pages = None
    /\ lg_all_over = TRUE
    /\ lg_best_content = NoText

GeneratePdf ==
    /\ lg_pc = "generate_pdf"
    /\ \E render \in {"ok", "raise", "raise_final"}, estimated_pages \in 1..MaxPages :
         /\ (render = "raise" \/ resume_data.id = 0) => estimated_pages = 1
         /\ LET n == lg_cycle_count + 1
                upd == generate_pdf(LegacyState, render, estimated_pages, n, 100 + n)
                completed == "resume_text" \in DOMAIN upd
            IN  /\ resume_data' = Apply(resume_data, upd, "resume_data")
                /\ page_length' = Apply(page_length, upd, "page_length")
                /\ best_resume_data' = Apply(best_resume_data, upd, "best_resume_data")
                /\ best_page_length' = Apply(best_page_length, upd, "best_page_length")
                /\ best_pdf_path' = Apply(best_pdf_path, upd, "best_pdf_path")
                /\ resume_pdf_path' = Apply(resume_pdf_path, upd, "resume_pdf_path")
                /\ resume_text' = Apply(resume_text, upd, "resume_text")
                /\ lg_cycle_count' = n
                /\ lg_last' = [n |-> n, doc |-> resume_data,
                               content |-> Content(resume_data, exp_points),
                               pages |-> IF completed THEN estimated_pages ELSE None,
                               pdf_path |-> IF completed THEN n ELSE None,
                               final_pdf_path |-> IF completed THEN 100 + n ELSE None,
                               optimizing |-> is_optimizing]
                /\ lg_min_pages' = IF ~completed THEN lg_min_pages
                                   ELSE IF lg_min_pages = None THEN estimated_pages
                                   ELSE Min(lg_min_pages, estimated_pages)
                /\ lg_all_over' = (lg_all_over /\ completed /\ estimated_pages > 1)
                /\ lg_best_content' = IF "best_resume_data" \in DOMAIN upd
                                      THEN Content(resume_data, exp_points)
                                      ELSE lg_best_content
    /\ lg_pc' = "route_optimization_edge"
    /\ UNCHANGED <<exp_points, optimization_attempts, is_optimizing, optimization_feedback>>
    /\ UNCHANGED <<graphVars, histVars, routeVars, lengthVars, reducerVars, extraVars>>

RouteOptimizationEdge ==
    /\ lg_pc = "route_optimization_edge"
    /\ lg_pc' = route_optimization_edge(page_length, optimization_attempts)
    /\ UNCHANGED <<resume_data, exp_points, page_length, optimization_attempts,
                   is_optimizing, best_resume_data, best_page_length, best_pdf_path,
                   resume_pdf_path, resume_text, optimization_feedback, lg_cycle_count,
                   lg_last, lg_min_pages, lg_all_over, lg_best_content>>
    /\ UNCHANGED <<graphVars, histVars, routeVars, lengthVars, reducerVars, extraVars>>

OptimizeContent ==
    /\ lg_pc = "optimize_content"
    /\ \E llm \in {"ok", "raise"}, keywords \in SUBSET Keywords :
         /\ (llm = "raise" \/ resume_data.id = 0) => keywords = {}
         /\ LET upd == optimize_content(LegacyState, llm, keywords, lg_cycle_count + 1)
            IN  /\ resume_data' = Apply(resume_data, upd, "resume_data")
                /\ exp_points' = Apply(exp_points, upd, "exp_points")
                /\ optimization_attempts' =
                       Apply(optimization_attempts, upd, "optimization_attempts")
                /\ is_optimizing' = Apply(is_optimizing, upd, "is_optimizing")
                /\ optimization_feedback' =
                       Apply(optimization_feedback, upd, "optimization_feedback")
    /\ lg_pc' = "generate_pdf"
    /\ UNCHANGED <<page_length, best_resume_data, best_page_length, best_pdf_path,
                   resume_pdf_path, resume_text, lg_cycle_count, lg_last, lg_min_pages,
                   lg_all_over, lg_best_content>>
    /\ UNCHANGED <<graphVars, histVars, routeVars, lengthVars, reducerVars, extraVars>>

NextLegacy ==
    \/ GeneratePdf
    \/ RouteOptimizationEdge
    \/ OptimizeContent

SpecLegacy == InitLegacy /\ [][NextLegacy]_vars

(***************************************************************************)
(* The graph run by the scheduler, superstep by superstep                  *)
(*                                                                         *)
(* The tasks of a superstep read the state as it was when the superstep    *)
(* started and return in any order; their writes are applied when all      *)
(* have returned.  A write to the branch:to channel of a deferred node     *)
(* makes that node runnable only when a superstep ends with no other node  *)
(* triggered.                                                              *)
(***************************************************************************)

\* The state objects of a dispatch are kept in a list; an object is referred
\* to by its position and holds its current_experience_id.  ParentState is the
\* state passed to map_experience_edge.
ParentState == 1

\* InternalState.model_validate(state) for a state that already is an
\* InternalState: pydantic does not revalidate instances (revalidate_instances
\* defaults to 'never') and returns the instance it was given.
model_validate(objects, ref) ==
    [objects |-> objects, ref |-> ref]

RECURSIVE KeyOrder(_)
\* state.experience.keys(): the ids in the order read_db_content inserted
\* them, the order of the rows.
KeyOrder(ids) ==
    IF ids = {} THEN <<>>
    ELSE LET m == CHOOSE x \in ids : \A y \in ids : x <= y
         IN  <<m>> \o KeyOrder(ids \ {m})

RECURSIVE map_experience_edge_loop(_, _, _)
\* The loop of map_experience_edge over the experience ids: for each id the
\* two state objects are obtained and assigned the id, and two Sends appended.
\* A Send records the node, the object it carries (arg) and the id of the
\* loop iteration that created it (exp).
map_experience_edge_loop(keys, objects, next_nodes) ==
    IF keys = <<>>
    THEN [objects |-> objects, next_nodes |-> next_nodes]
    ELSE LET exp_id == Head(keys)
             new_state_extract == model_validate(objects, ParentState)
             objects_1 == [new_state_extract.objects EXCEPT ![new_state_extract.ref] = exp_id]
             next_nodes_1 ==
                 Append(next_nodes, [node |-> "extract_skills_and_accomplishments",
                                     exp |-> exp_id, arg |-> new_state_extract.ref])
             new_state_summarize == model_validate(objects_1, ParentState)
             objects_2 == [new_state_summarize.objects
                              EXCEPT ![new_state_summarize.ref] = exp_id]
             next_nodes_2 ==
                 Append(next_nodes_1, [node |-> "summarize_experience",
                                       exp |-> exp_id, arg |-> new_state_summarize.ref])
         IN  map_experience_edge_loop(Tail(keys), objects_2, next_nodes_2)

\* map_experience_edge: an extraction and a summarization Send per experience.
map_experience_edge(state_experience) ==
    map_experience_edge_loop(KeyOrder(state_experience), <<None>>, <<>>)

\* state.current_experience_id as read by the task t of a Send: the value
\* held by the state object the Send carries.
CurrentExperienceId(t) ==
    LET send == CHOOSE x \in {dispatched[k] : k \in 1..Len(dispatched)} :
                    x.node = t.node /\ x.exp = t.exp
    IN  state_objects[send.arg]

\* read_db_content, when the user row exists.
read_db_content(user_row, experience_rows) ==
    [user |-> user_row, experience |-> experience_rows]

\* Variant of extract_skills_and_accomplishments that returns an entry with
\* empty lists when the chain raises.
extract_skills_and_accomplishments_merging_failed(exp_id, job_description, state_experience, chain_result) ==
    IF exp_id = None
    THEN EmptyUpdate
    ELSE IF job_description = ""
    THEN EmptyUpdate
    ELSE IF exp_id \notin state_experience
    THEN EmptyUpdate
    ELSE [skills_and_accomplishments |-> SomeDict([k \in {exp_id} |-> chain_result.val])]

\* extract_skills_and_accomplishments for the experience exp_id; chain_result
\* is what the extraction chain does for it.
extract_skills_and_accomplishments(exp_id, job_description, state_experience, chain_result) ==
    IF exp_id = None
    THEN EmptyUpdate
    ELSE IF job_description = ""
    THEN EmptyUpdate
    ELSE IF exp_id \notin state_experience
    THEN EmptyUpdate
    ELSE IF ~chain_result.ok
    THEN EmptyUpdate
    ELSE [skills_and_accomplishments |-> SomeDict([k \in {exp_id} |-> chain_result.val])]

\* summarize_experience for the experience exp_id.
summarize_experience(exp_id, job_description, state_experience, chain_result) ==
    IF exp_id = None
    THEN EmptyUpdate
    ELSE IF job_description = ""
    THEN EmptyUpdate
    ELSE IF exp_id \notin state_experience
    THEN EmptyUpdate
    ELSE IF ~chain_result.ok
    THEN EmptyUpdate
    ELSE IF chain_result.val = <<>>
    THEN EmptyUpdate
    ELSE [experience_summary |-> SomeDict([k \in {exp_id} |-> chain_result.val])]

\* summarize_responses: "" when there are no candidate responses.
summarize_responses(outcome) ==
    IF outcome = "empty" THEN [responses_summary |-> 0] ELSE [responses_summary |-> 1]

\* create_professional_summary, when it does not raise.
create_professional_summary(outcome) == [professional_summary |-> 1]

\* Whether the node run by task t raises; the exception ends the run.
NodeRaises(t, outcome) ==
    IF t.node = "read_db_content"
    THEN db_user = None
    ELSE IF t.node = "summarize_responses"
    THEN outcome = "raise"
    ELSE IF t.node = "create_professional_summary"
    THEN IF DOMAIN experience_summary.val = {} /\ responses_summary \in {None, 0}
         THEN TRUE
         ELSE outcome = "raise"
    ELSE FALSE

\* The update returned by the node of task t.
NodeUpdate(t, outcome, fills) ==
    CASE t.node = "read_db_content" -> read_db_content(db_user, db_experience)
      [] t.node = "extract_skills_and_accomplishments" ->
            extract_skills_and_accomplishments(CurrentExperienceId(t), JobDescription,
                                               experience, extract_results[t.exp])
      [] t.node = "summarize_experience" ->
            summarize_experience(CurrentExperienceId(t), JobDescription, experience,
                                 summary_results[t.exp])
      [] t.node = "summarize_responses" -> summarize_responses(outcome)
      [] t.node = "create_professional_summary" -> create_professional_summary(outcome)
      [] t.node = "select_resume_content" ->
            select_resume_content(user, outcome, invocations[t] + 1)
      [] t.node = "generate_resume_pdf" ->
            generate_resume_pdf(resume, IF outcome = "ok" THEN "ok" ELSE "render_error",
                                fills, invocations[t] + 1)
      [] t.node = "provide_resume_feedback" ->
            provide_resume_feedback(IF outcome = "ok" THEN "text" ELSE "raise",
                                    invocations[t] + 1)

\* What the environment can do during task t.
TaskOutcomes(t) ==
    IF t.node = "summarize_responses" THEN {"ok", "empty", "raise"}
    ELSE IF t.node \in {"create_professional_summary", "select_resume_content",
                        "generate_resume_pdf", "provide_resume_feedback"}
    THEN {"ok", "raise"}
    ELSE {"ok"}

TaskFills(t) ==
    IF t.node = "generate_resume_pdf" THEN {<<97>>, <<97, 27>>} ELSE {<<97>>}

\* Channels reduced with dict_reducer.
DictChannels == {"skills_and_accomplishments", "experience_summary"}

\* The branch:to channels written when task t returns upd: the targets of its
\* plain edges and, after generate_resume_pdf, of route_feedback_edge.
BranchWrites(t, upd) ==
    {m \in GraphNodes : <<t.node, m>> \in Edges}
    \cup (IF t.node = "generate_resume_pdf"
          THEN {route_feedback_edge(feedback_loop_iterations, feedback_loop_max_iterations,
                                    Apply(resume_page_length, upd, "resume_page_length"),
                                    resume_page_target)} \ {"END"}
          ELSE {})

\* The list of Sends and the state objects produced when task t returns upd.
Dispatch(t, upd) ==
    IF t.node = "read_db_content"
    THEN map_experience_edge(Apply(experience, upd, "experience"))
    ELSE [objects |-> state_objects, next_nodes |-> dispatched]

\* The Send tasks produced when task t returns upd.
Sends(t, upd) ==
    IF t.node = "read_db_content"
    THEN LET next_nodes == Dispatch(t, upd).next_nodes
         IN  {Task(next_nodes[k].node, next_nodes[k].exp) : k \in 1..Len(next_nodes)}
    ELSE {}

RECURSIVE ReduceAll(_, _)
\* The writes ws to a dict channel applied to its value, in order.
ReduceAll(acc, ws) ==
    IF ws = <<>> THEN acc
    ELSE ReduceAll(SomeDict(dict_reducer(acc, Head(ws))), Tail(ws))

InitGraph ==
    /\ pc = "END"
    /\ resume = None
    /\ resume_page_length = None
    /\ resume_path = None
    /\ resume_page_target = 100
    /\ resume_feedback = None
    /\ feedback_loop_iterations = feedback_loop_iterations_default
    /\ feedback_loop_max_iterations \in {0, 1}
    /\ user = None
    /\ word_count = None
    /\ cycle_count = 0
    /\ last_cycle = NoCycle
    /\ min_measured = None
    /\ min_docs = {}
    /\ all_over = TRUE
    /\ seen_within = FALSE
    /\ RouteDefaults
    /\ LengthDefaults
    /\ ReducerDefaults
    /\ LegacyDefaults
    /\ run = "running"
    /\ raised = "none"
    /\ db_user \in {None, 1}
    /\ db_experience \in {{}, Keys}
    /\ extract_results \in [Keys -> ExtractResults]
    /\ \E r \in SummaryResults : summary_results = [e \in Keys |-> r]
    /\ db_experience = {} =>
           \A e \in Keys : extract_results[e] = ChainFailed /\ summary_results[e] = ChainFailed
    /\ db_user = None => db_experience = {}
    /\ experience = {}
    /\ skills_and_accomplishments = SomeDict(EmptyDict)
    /\ experience_summary = SomeDict(EmptyDict)
    /\ responses_summary = None
    /\ professional_summary = None
    /\ tasks = {Task("read_db_content", 0)}
    /\ done = {}
    /\ trigger = [n \in GraphNodes |-> "empty"]
    /\ pending = EmptyUpdate
    /\ saa_writes = <<>>
    /\ summary_writes = <<>>
    /\ branch_writes = {}
    /\ sends = {}
    /\ invocations = [t \in AllTasks |-> 0]
    /\ select_read = NoSelectRead
    /\ dispatched = <<>>
    /\ state_objects = <<None>>
    /\ TransformDefaults
    /\ AssembleDefaults
    /\ MoreDefaults

\* A task of the superstep returns (or raises, which ends the run).
RunTask ==
    /\ run = "running"
    /\ \E t \in tasks \ done :
         \E outcome \in TaskOutcomes(t), fills \in TaskFills(t) :
           IF NodeRaises(t, outcome)
           THEN /\ run' = "raised"
                /\ raised' = t.node
                /\ UNCHANGED <<done, invocations, pending, saa_writes, summary_writes,
                               branch_writes, sends, dispatched, state_objects>>
           ELSE LET upd == NodeUpdate(t, outcome, fills)
                    plain == [k \in (DOMAIN upd) \ DictChannels |-> upd[k]]
                IN  /\ done' = done \cup {t}
                    /\ invocations' = [invocations EXCEPT ![t] = @ + 1]
                    /\ pending' = Override(pending, plain)
                    /\ saa_writes' =
                           IF "skills_and_accomplishments" \in DOMAIN upd
                           THEN Append(saa_writes, upd["skills_and_accomplishments"])
                           ELSE saa_writes
                    /\ summary_writes' =
                           IF "experience_summary" \in DOMAIN upd
                           THEN Append(summary_writes, upd["experience_summary"])
                           ELSE summary_writes
                    /\ branch_writes' = branch_writes \cup BranchWrites(t, upd)
                    /\ sends' = sends \cup Sends(t, upd)
                    /\ dispatched' = Dispatch(t, upd).next_nodes
                    /\ state_objects' = Dispatch(t, upd).objects
                    /\ UNCHANGED <<run, raised>>
    /\ UNCHANGED <<db_user, db_experience, extract_results, summary_results, experience,
                   skills_and_accomplishments, experience_summary, responses_summary,
                   professional_summary, tasks, trigger, select_read>>
    /\ UNCHANGED <<graphVars, histVars, routeVars, lengthVars, reducerVars, legacyVars>>
    /\ UNCHANGED <<transformVars, assembleVars, moreVars>>

\* All tasks of the superstep have returned: their writes are applied and the
\* tasks of the next superstep are prepared.
ApplyWrites ==
    /\ run = "running"
    /\ tasks # {}
    /\ done = tasks
    /\ LET consumed == {t.node : t \in tasks} \ SendNodes
           trig1 == [n \in GraphNodes |->
                        IF n \in branch_writes
                        THEN (IF n \in Deferred THEN "written" ELSE "available")
                        ELSE IF n \in consumed THEN "empty"
                        ELSE trigger[n]]
           last == \A n \in GraphNodes : trig1[n] # "available"
           trig2 == [n \in GraphNodes |->
                        IF last /\ trig1[n] = "written" THEN "available" ELSE trig1[n]]
           next_tasks == {Task(n, 0) : n \in {m \in GraphNodes : trig2[m] = "available"}}
                         \cup sends
           sel == Task("select_resume_content", 0)
       IN  /\ trigger' = trig2
           /\ tasks' = next_tasks
           /\ run' = IF next_tasks = {} THEN "END" ELSE "running"
           /\ skills_and_accomplishments' = ReduceAll(skills_and_accomplishments, saa_writes)
           /\ experience_summary' = ReduceAll(experience_summary, summary_writes)
           /\ user' = Apply(user, pending, "user")
           /\ experience' = Apply(experience, pending, "experience")
           /\ responses_summary' = Apply(responses_summary, pending, "responses_summary")
           /\ professional_summary' = Apply(professional_summary, pending,
                                            "professional_summary")
           /\ resume' = Apply(resume, pending, "resume")
           /\ word_count' = Apply(word_count, pending, "word_count")
           /\ resume_page_length' = Apply(resume_page_length, pending, "resume_page_length")
           /\ resume_path' = Apply(resume_path, pending, "resume_path")
           /\ resume_feedback' = Apply(resume_feedback, pending, "resume_feedback")
           /\ feedback_loop_iterations' =
                  feedback_loop_iterations + Apply(0, pending, "feedback_loop_iterations")
           /\ select_read' =
                  IF sel \in next_tasks
                  THEN [n |-> invocations[sel] + 1,
                        skills_and_accomplishments |-> skills_and_accomplishments'.val,
                        professional_summary |-> professional_summary',
                        together |-> {t.node : t \in next_tasks}]
                  ELSE select_read
    /\ done' = {}
    /\ pending' = EmptyUpdate
    /\ saa_writes' = <<>>
    /\ summary_writes' = <<>>
    /\ branch_writes' = {}
    /\ sends' = {}
    /\ UNCHANGED <<raised, db_user, db_experience, extract_results, summary_results,
                   invocations, dispatched, state_objects>>
    /\ UNCHANGED <<pc, resume_page_target, feedback_loop_max_iterations>>
    /\ UNCHANGED <<histVars, routeVars, lengthVars, reducerVars, legacyVars>>
    /\ UNCHANGED <<transformVars, assembleVars, moreVars>>

NextGraph == RunTask \/ ApplyWrites

SpecGraph == InitGraph /\ [][NextGraph]_vars

(***************************************************************************)
(* transform_user_to_resume_data applied to user data                      *)
(***************************************************************************)

\* Lists of length 0..MaxListLen over the set S.
ListsOver(S) == UNION {[1..n -> S] : n \in 0..MaxListLen}

\* _format_date: "Present" for no date, else the month and year of the date.
format_date(dt) ==
    IF dt = None THEN [text |-> "Present", of |-> None]
    ELSE [text |-> "Mon YYYY", of |-> dt]

\* f"{first_name} {last_name}"
FullName(u) == <<u.first_name, " ", u.last_name>>

\* Variant of transform_user_to_resume_data that raises only when both names
\* are missing.
transform_user_to_resume_data_both_missing(user_obj, experience_data) ==
    IF user_obj.first_name = "" /\ user_obj.last_name = ""
    THEN [raised |-> TRUE, user |-> user_obj, resume |-> NoResume]
    ELSE LET user_out == IF user_obj.email = ""
                         THEN [user_obj EXCEPT !.email = "email@example.com"]
                         ELSE user_obj
         IN  [raised |-> FALSE,
              user |-> user_out,
              resume |-> [none |-> FALSE,
                          name |-> FullName(user_out),
                          email |-> user_out.email,
                          experience |->
                              [i \in 1..Len(experience_data) |->
                                  [id |-> experience_data[i].id,
                                   end_date |-> format_date(experience_data[i].end_date),
                                   points |-> 0]],
                          skills |-> <<>>]]

\* transform_user_to_resume_data: the result, with the User object as the
\* call leaves it.
transform_user_to_resume_data(user_obj, experience_data) ==
    IF user_obj.first_name = "" \/ user_obj.last_name = ""
    THEN [raised |-> TRUE, user |-> user_obj, resume |-> NoResume]
    ELSE LET user_out == IF user_obj.email = ""
                         THEN [user_obj EXCEPT !.email = "email@example.com"]
                         ELSE user_obj
         IN  [raised |-> FALSE,
              user |-> user_out,
              resume |-> [none |-> FALSE,
                          name |-> FullName(user_out),
                          email |-> user_out.email,
                          experience |->
                              [i \in 1..Len(experience_data) |->
                                  [id |-> experience_data[i].id,
                                   end_date |-> format_date(experience_data[i].end_date),
                                   points |-> 0]],
                          skills |-> <<>>]]

InitTransform ==
    /\ GraphDefaults
    /\ RouteDefaults
    /\ LengthDefaults
    /\ ReducerDefaults
    /\ LegacyDefaults
    /\ RunDefaults
    /\ AssembleDefaults
    /\ MoreDefaults
    /\ tr_user \in Users
    /\ tr_user_before = tr_user
    /\ tr_experience_data \in ListsOver({[id |-> 1, end_date |-> None],
                                         [id |-> 2, end_date |-> 2020]})
    /\ tr_op = "none"
    /\ tr_raised = FALSE
    /\ tr_resume = NoResume

TransformUserToResumeData ==
    /\ tr_op = "none"
    /\ LET out == transform_user_to_resume_data(tr_user, tr_experience_data)
       IN  /\ tr_raised' = out.raised
           /\ tr_user' = out.user
           /\ tr_resume' = out.resume
    /\ tr_op' = "transform_user_to_resume_data"
    /\ UNCHANGED <<tr_user_before, tr_experience_data>>
    /\ UNCHANGED <<graphVars, histVars, routeVars, lengthVars, reducerVars, legacyVars,
                   runVars, assembleVars, moreVars>>

NextTransform == TransformUserToResumeData

SpecTransform == InitTransform /\ [][NextTransform]_vars

(***************************************************************************)
(* select_resume_content and _assemble_resume_from_selection applied to a  *)
(* state and a selection returned by the LLM chain                         *)
(*                                                                         *)
(* A selection is the list of chosen experience ids, the number of bullet  *)
(* points chosen for each, and the list of selected skills.                *)
(***************************************************************************)

SkillNames == {"Python", "python", "SQL"}
SelectedIds == {1, 9}
SelectedPoints == {2, 6}
FeedbackTexts == {"", "fewer bullets"}

RECURSIVE DedupSkills(_, _, _)
\* The loop `for sk in sel.selected_skills: if sk not in seen: ...`.
DedupSkills(sks, seen, acc) ==
    IF sks = <<>> THEN acc
    ELSE IF Head(sks) \in seen
    THEN DedupSkills(Tail(sks), seen, acc)
    ELSE DedupSkills(Tail(sks), seen \cup {Head(sks)}, Append(acc, Head(sks)))

RECURSIVE ChosenExperiences(_, _, _)
\* The loop over sel.experiences: ids unknown to state.experience are skipped.
ChosenExperiences(chosen, state_experience, points) ==
    IF chosen = <<>> THEN <<>>
    ELSE IF Head(chosen) \notin state_experience
    THEN ChosenExperiences(Tail(chosen), state_experience, points)
    ELSE <<[id |-> Head(chosen), points |-> points]>>
         \o ChosenExperiences(Tail(chosen), state_experience, points)

\* _assemble_resume_from_selection
assemble_resume_from_selection(state_user, state_experience, sel) ==
    [none |-> FALSE,
     name |-> FullName(state_user),
     email |-> state_user.email,
     experience |-> ChosenExperiences(sel.experiences, state_experience, sel.points),
     skills |-> DedupSkills(sel.selected_skills, {}, <<>>)]

InitAssemble ==
    /\ GraphDefaults
    /\ RouteDefaults
    /\ LengthDefaults
    /\ ReducerDefaults
    /\ LegacyDefaults
    /\ RunDefaults
    /\ TransformDefaults
    /\ MoreDefaults
    /\ as_user \in {u \in Users : (u.first_name = "") = (u.last_name = "")
                                  /\ (u.first_name = "") = (u.email = "")}
    /\ as_experience = {1, 2}
    /\ as_sel \in [experiences : ListsOver(SelectedIds),
                   points : SelectedPoints,
                   selected_skills : ListsOver(SkillNames)]
    /\ as_page_target \in Targets
    /\ as_page_length \in {None, as_page_target + 31}
    /\ as_feedback \in FeedbackTexts
    /\ as_page_length = None => as_feedback = ""
    /\ as_op = "none"
    /\ as_resume = NoResume

\* select_resume_content on a state whose user is loaded; the chain returns
\* the selection as_sel or raises.
SelectAndAssemble ==
    /\ as_op = "none"
    /\ \E chain_outcome \in {"ok", "raise"} :
         LET upd == select_resume_content(
                        IF as_user.none THEN None ELSE 1, chain_outcome,
                        assemble_resume_from_selection(as_user, as_experience, as_sel))
         IN  as_resume' = Apply(NoResume, upd, "resume")
    /\ as_op' = "select_resume_content"
    /\ UNCHANGED <<as_user, as_experience, as_sel, as_page_target, as_page_length,
                   as_feedback>>
    /\ UNCHANGED <<graphVars, histVars, routeVars, lengthVars, reducerVars, legacyVars,
                   runVars, transformVars, moreVars>>

NextAssemble == SelectAndAssemble

SpecAssemble == InitAssemble /\ [][NextAssemble]_vars

(***************************************************************************)
(* Repository: create, get_by_id, update and delete over one table         *)
(*                                                                         *)
(* The table is the function from the stored ids to the stored fields.     *)
(* The database assigns to an object without id the id after the largest   *)
(* stored one.                                                             *)
(***************************************************************************)

RowIds == 1..MaxRows
RowValues == {"John", "Jane"}

Restrict(f, S) == [x \in S |-> f[x]]

Put(f, k, v) == [x \in (DOMAIN f) \cup {k} |-> IF x = k THEN v ELSE f[x]]

\* The id the database gives to a row inserted without one.
NextRowId(table) ==
    IF DOMAIN table = {} THEN 1
    ELSE (CHOOSE m \in DOMAIN table : \A x \in DOMAIN table : x <= m) + 1

\* session.get(self.model, obj_id)
Repository_get_by_id(table, obj_id) ==
    IF obj_id \in DOMAIN table THEN [id |-> obj_id, val |-> table[obj_id]] ELSE NoRow

\* Repository.create: inserts obj; a primary key already stored makes the
\* insert fail and the session roll back.
Repository_create(table, obj) ==
    LET i == IF obj.id = None THEN NextRowId(table) ELSE obj.id
        inserted == Put(table, i, obj.val)
    IN  IF i \in DOMAIN table
        THEN [raised |-> TRUE, table |-> table, result |-> NoRow]
        ELSE [raised |-> FALSE, table |-> inserted,
              result |-> Repository_get_by_id(inserted, i)]

\* Repository.update: writes the fields of a stored object.
Repository_update(table, obj) ==
    IF obj.id \in DOMAIN table
    THEN [raised |-> FALSE, table |-> Put(table, obj.id, obj.val), result |-> obj]
    ELSE [raised |-> TRUE, table |-> table, result |-> NoRow]

\* Variant of Repository.delete that reports True whether or not the id was
\* found.
Repository_delete_always_true(table, obj_id) ==
    IF obj_id \in DOMAIN table
    THEN [table |-> Restrict(table, (DOMAIN table) \ {obj_id}), result |-> TRUE]
    ELSE [table |-> table, result |-> TRUE]

\* Repository.delete
Repository_delete(table, obj_id) ==
    IF Repository_get_by_id(table, obj_id) # NoRow
    THEN [table |-> Restrict(table, (DOMAIN table) \ {obj_id}), result |-> TRUE]
    ELSE [table |-> table, result |-> FALSE]

InitRepo ==
    /\ GraphDefaults
    /\ RouteDefaults
    /\ LengthDefaults
    /\ ReducerDefaults
    /\ LegacyDefaults
    /\ ExtraDefaults

RepoCreate ==
    /\ \E i \in {None} \cup RowIds, v \in RowValues :
          LET r == Repository_create(rp_table, [id |-> i, val |-> v])
          IN  /\ i = None => NextRowId(rp_table) \in RowIds
              /\ rp_op' = "create"
              /\ rp_arg' = i
              /\ rp_before' = rp_table
              /\ rp_table' = r.table
              /\ rp_raised' = r.raised
              /\ rp_obj' = r.result
              /\ rp_live' = IF r.raised THEN rp_live
                            ELSE Put(rp_live, r.result.id, r.result.val)
    /\ UNCHANGED rp_deleted
    /\ UNCHANGED <<graphVars, histVars, routeVars, lengthVars, reducerVars, legacyVars,
                runVars, transformVars, assembleVars, feedbackVars, mainVars>>

RepoGetById ==
    /\ \E i \in RowIds :
          /\ rp_op' = "get_by_id"
          /\ rp_arg' = i
          /\ rp_obj' = Repository_get_by_id(rp_table, i)
    /\ rp_before' = rp_table
    /\ rp_raised' = FALSE
    /\ UNCHANGED <<rp_table, rp_live, rp_deleted>>
    /\ UNCHANGED <<graphVars, histVars, routeVars, lengthVars, reducerVars, legacyVars,
                runVars, transformVars, assembleVars, feedbackVars, mainVars>>

RepoUpdate ==
    /\ \E i \in RowIds, v \in RowValues :
          LET r == Repository_update(rp_table, [id |-> i, val |-> v])
          IN  /\ rp_op' = "update"
              /\ rp_arg' = i
              /\ rp_before' = rp_table
              /\ rp_table' = r.table
              /\ rp_raised' = r.raised
              /\ rp_obj' = r.result
              /\ rp_live' = IF r.raised THEN rp_live
                            ELSE Put(rp_live, r.result.id, r.result.val)
    /\ UNCHANGED rp_deleted
    /\ UNCHANGED <<graphVars, histVars, routeVars, lengthVars, reducerVars, legacyVars,
                runVars, transformVars, assembleVars, feedbackVars, mainVars>>

RepoDelete ==
    /\ \E i \in RowIds :
          LET r == Repository_delete(rp_table, i)
          IN  /\ rp_op' = "delete"
              /\ rp_arg' = i
              /\ rp_before' = rp_table
              /\ rp_table' = r.table
              /\ rp_deleted' = r.result
              /\ rp_live' = IF r.result
                            THEN Restrict(rp_live, (DOMAIN rp_live) \ {i})
                            ELSE rp_live
    /\ rp_raised' = FALSE
    /\ rp_obj' = NoRow
    /\ UNCHANGED <<graphVars, histVars, routeVars, lengthVars, reducerVars, legacyVars,
                runVars, transformVars, assembleVars, feedbackVars, mainVars>>

NextRepo == RepoCreate \/ RepoGetById \/ RepoUpdate \/ RepoDelete

SpecRepo == InitRepo /\ [][NextRepo]_vars

(***************************************************************************)
(* The cover-letter loop of the main agent: write_cover_letter ->          *)
(* get_feedback -> route_cover_letter_feedback_edge -> write_cover_letter  *)
(* or write_resume                                                         *)
(*                                                                         *)
(* A text typed by the user is a list of characters.                       *)
(***************************************************************************)

ReplyChars == {" ", "n", "N", "o", "x"}
Replies == UNION {[1..n -> ReplyChars] : n \in 0..MaxReplyLen}

RECURSIVE LStrip(_)
LStrip(t) == IF t # <<>> /\ Head(t) = " " THEN LStrip(Tail(t)) ELSE t

RECURSIVE RStrip(_)
RStrip(t) == IF t # <<>> /\ t[Len(t)] = " " THEN RStrip(SubSeq(t, 1, Len(t) - 1)) ELSE t

\* str.strip()
Strip(t) == RStrip(LStrip(t))

\* str.lower()
LowerCase(t) == [i \in 1..Len(t) |-> CASE t[i] = "N" -> "n" [] t[i] = "O" -> "o" [] OTHER -> t[i]]

\* Variant of get_feedback that compares the reply without lowering it.
get_feedback_case_sensitive(state_cover_letter, response) ==
    IF state_cover_letter \in {None, 0}
    THEN EmptyUpdate
    ELSE LET content == Strip(response)
         IN  IF content \in {<<"n", "o">>, <<"n">>, <<>>}
             THEN [cover_letter_feedback |-> NoneText]
             ELSE [cover_letter_feedback |-> SomeText(content)]

\* get_feedback: response is the text the user typed at the interrupt.
get_feedback(state_cover_letter, response) ==
    IF state_cover_letter \in {None, 0}
    THEN EmptyUpdate
    ELSE LET content == Strip(response)
         IN  IF LowerCase(content) \in {<<"n", "o">>, <<"n">>, <<>>}
             THEN [cover_letter_feedback |-> NoneText]
             ELSE [cover_letter_feedback |-> SomeText(content)]

\* route_cover_letter_feedback_edge: `if state.cover_letter_feedback`
route_cover_letter_feedback_edge(state_cover_letter_feedback) ==
    IF ~state_cover_letter_feedback.none /\ state_cover_letter_feedback.val # <<>>
    THEN "write_cover_letter"
    ELSE "write_resume"

InitMain ==
    /\ GraphDefaults
    /\ RouteDefaults
    /\ LengthDefaults
    /\ ReducerDefaults
    /\ LegacyDefaults
    /\ RunDefaults
    /\ TransformDefaults
    /\ AssembleDefaults
    /\ RepoDefaults
    /\ FeedbackDefaults
    /\ mn_pc = "write_cover_letter"
    /\ cover_letter = None
    /\ cover_letter_feedback = NoneText
    /\ mn_asked = FALSE
    /\ mn_reply = <<>>
    /\ mn_drafts = 0

\* write_cover_letter: the chain returns a text, returns an empty text, or
\* raises.
WriteCoverLetter ==
    /\ mn_pc = "write_cover_letter"
    /\ mn_drafts < MaxDrafts
    /\ \E outcome \in ChainOutcomes :
          /\ cover_letter' = IF outcome = "text" THEN mn_drafts + 1
                             ELSE IF outcome = "empty" THEN 0
                             ELSE cover_letter
          /\ mn_pc' = IF outcome = "raise" THEN "raised" ELSE "get_feedback"
    /\ mn_drafts' = mn_drafts + 1
    /\ UNCHANGED <<cover_letter_feedback, mn_asked, mn_reply>>
    /\ UNCHANGED <<graphVars, histVars, routeVars, lengthVars, reducerVars, legacyVars,
                runVars, transformVars, assembleVars, repoVars, feedbackVars>>

GetFeedback ==
    /\ mn_pc = "get_feedback"
    /\ \E response \in Replies :
          LET upd == get_feedback(cover_letter, response)
          IN  /\ cover_letter \in {None, 0} => response = <<>>
              /\ cover_letter_feedback' =
                     Apply(cover_letter_feedback, upd, "cover_letter_feedback")
              /\ mn_asked' = (cover_letter \notin {None, 0})
              /\ mn_reply' = response
    /\ mn_pc' = "route_cover_letter_feedback_edge"
    /\ UNCHANGED <<cover_letter, mn_drafts>>
    /\ UNCHANGED <<graphVars, histVars, routeVars, lengthVars, reducerVars, legacyVars,
                runVars, transformVars, assembleVars, repoVars, feedbackVars>>

RouteCoverLetterFeedbackEdge ==
    /\ mn_pc = "route_cover_letter_feedback_edge"
    /\ mn_pc' = route_cover_letter_feedback_edge(cover_letter_feedback)
    /\ UNCHANGED <<cover_letter, cover_letter_feedback, mn_asked, mn_reply, mn_drafts>>
    /\ UNCHANGED <<graphVars, histVars, routeVars, lengthVars, reducerVars, legacyVars,
                runVars, transformVars, assembleVars, repoVars, feedbackVars>>

WriteResume ==
    /\ mn_pc = "write_resume"
    /\ mn_pc' = "END"
    /\ UNCHANGED <<cover_letter, cover_letter_feedback, mn_asked, mn_reply, mn_drafts>>
    /\ UNCHANGED <<graphVars, histVars, routeVars, lengthVars, reducerVars, legacyVars,
                runVars, transformVars, assembleVars, repoVars, feedbackVars>>

NextMain ==
    \/ WriteCoverLetter
    \/ GetFeedback
    \/ RouteCoverLetterFeedbackEdge
    \/ WriteResume

SpecMain == InitMain /\ [][NextMain]_vars

(***************************************************************************)
(* Properties                                                              *)
(***************************************************************************)

\* C1: the convergence loop reaches END after at most maxIterations + 1
\* render/measure cycles.
C1_AtMostMaxPlusOneCycles ==
    cycle_count <= feedback_loop_max_iterations + 1

\* C2: in every reachable state of the loop the iteration counter is at most
\* feedback_loop_max_iterations.
C2_IterationsAtMostMax ==
    feedback_loop_iterations <= feedback_loop_max_iterations

\* C3: the edge ends the loop as accepted if and only if the measured page
\* length lies in [target - 0.07, target]; outside the band it ends only when
\* the iteration budget is exceeded and asks for feedback while iterations
\* remain; for target 1.0, 0.95 is accepted and 0.92 and 1.01 are not.
C3_AcceptedIffInBand ==
    rt_out # "none" =>
        /\ InBand(rt_in.pl, rt_in.target) => rt_out = "END"
        /\ rt_out = "END" => (InBand(rt_in.pl, rt_in.target) \/ rt_in.iter > rt_in.max)
        /\ (~InBand(rt_in.pl, rt_in.target) /\ rt_in.iter < rt_in.max)
               => rt_out = "provide_resume_feedback"
        /\ (rt_in.target = 100 /\ rt_in.pl = 95) => rt_out = "END"
        /\ (rt_in.target = 100 /\ rt_in.pl \in {92, 101} /\ rt_in.iter < rt_in.max)
               => rt_out = "provide_resume_feedback"

C3_Witness ==
    /\ rt_out = "END"
    /\ rt_in.target = 100
    /\ rt_in.pl = 95
    /\ rt_in.iter < rt_in.max

\* C4: if every cycle of the run measured a page length above the target, the
\* resume and page length held when the loop stops are those of a cycle with
\* the smallest measured length.
C4_ReturnsShortestWhenAllOver ==
    (pc = "END" /\ cycle_count > 0 /\ all_over) =>
        /\ resume \in min_docs
        /\ resume_page_length = min_measured

\* C5: the loop never stops with a page length above the target if an earlier
\* cycle of the run measured a page length that did not exceed the target.
C5_NeverOverLengthAfterFit ==
    (pc = "END" /\ seen_within /\ last_cycle.measured # None) =>
        resume_page_length <= resume_page_target

\* C6: when the attempts are used up and the last measured length does not
\* exceed the one-page target, the document, page length and PDF path returned
\* are those of the last cycle, and that cycle's resume is the tracked best.
C6_ExhaustedReturnsLast ==
    (/\ lg_pc = "END"
     /\ optimization_attempts >= MaxOptimizationAttempts
     /\ lg_last.pages # None
     /\ lg_last.pages * 100 <= 100) =>
        /\ resume_data = lg_last.doc
        /\ resume_text = lg_last.content
        /\ page_length = lg_last.pages
        /\ resume_pdf_path \in {lg_last.pdf_path, lg_last.final_pdf_path}
        /\ best_resume_data = lg_last.doc

\* The attempts are used up, the last cycle measured one page, and earlier
\* cycles had recorded another resume as the best.
C6_Witness ==
    /\ lg_pc = "END"
    /\ optimization_attempts >= MaxOptimizationAttempts
    /\ lg_last.pages = 1
    /\ lg_cycle_count > 1
    /\ lg_min_pages = 1
    /\ resume_data.id > 1

\* The renderer (or the template lookup before it) raised in the last cycle.
RenderRaised ==
    /\ cycle_count > 0
    /\ last_cycle.doc # None
    /\ last_cycle.written = None

C8_PageLengthFormula ==
    pl_out # None =>
        /\ pl_in = <<>> => pl_out = 0
        /\ pl_in # <<>> => pl_out = (Len(pl_in) - 1) * 100 + pl_in[Len(pl_in)]
        /\ pl_in = <<80>> => pl_out = 80
        /\ pl_in = <<97, 27>> => pl_out = 127

C8_Witness ==
    /\ pl_in = <<97, 27>>
    /\ pl_out = 127

\* C9: the page length a cycle records, and the edge compares with the band,
\* is the aggregate length (total_pages - 1) + fill of the last page.
C9_RecordsAggregateLength ==
    (pc = "route_feedback_edge" /\ last_cycle.aggregate # None) =>
        resume_page_length = last_cycle.aggregate

\* C10: merging the same keyed result a second time leaves the mapping equal
\* to the mapping after the first merge.
C10_MergeIdempotent ==
    red_n = 2 => red_acc = red_first

\* A result was merged twice over a mapping that held another value for one
\* of its keys.
C10_Witness ==
    /\ red_n = 2
    /\ ~red_last.none
    /\ ~red_before.none
    /\ \E k \in (DOMAIN red_last.val) \cap (DOMAIN red_before.val) :
           red_before.val[k] # red_last.val[k]

\* Every dispatched extraction and summarization task has returned and the
\* writes of that superstep have been applied.
FanInApplied ==
    /\ experience # {}
    /\ \A e \in experience :
           /\ invocations[Task("extract_skills_and_accomplishments", e)] = 1
           /\ invocations[Task("summarize_experience", e)] = 1
    /\ \A t \in tasks : t.node \notin SendNodes

\* What the task of node n created for experience e returns.
SendTaskUpdate(n, e) ==
    IF n = "extract_skills_and_accomplishments"
    THEN extract_skills_and_accomplishments(CurrentExperienceId(Task(n, e)), JobDescription,
                                            experience, extract_results[e])
    ELSE summarize_experience(CurrentExperienceId(Task(n, e)), JobDescription, experience,
                              summary_results[e])

RECURSIVE MergedInDispatchOrder(_, _, _, _)
\* The mapping obtained when the tasks of node n return in the order of their
\* dispatch and their writes to channel are merged into acc in that order.
MergedInDispatchOrder(n, channel, keys, acc) ==
    IF keys = <<>> THEN acc
    ELSE LET upd == SendTaskUpdate(n, Head(keys))
         IN  MergedInDispatchOrder(n, channel, Tail(keys),
                 IF channel \in DOMAIN upd
                 THEN SomeDict(dict_reducer(acc, upd[channel]))
                 ELSE acc)

\* C11: whatever the order in which the per-experience tasks return and are
\* merged, the merged mappings are the same: they are the mappings obtained
\* when the tasks return in the order of their dispatch.
C11_MergeOrderIrrelevant ==
    FanInApplied =>
        /\ skills_and_accomplishments =
               MergedInDispatchOrder("extract_skills_and_accomplishments",
                                     "skills_and_accomplishments", KeyOrder(experience),
                                     SomeDict(EmptyDict))
        /\ experience_summary =
               MergedInDispatchOrder("summarize_experience", "experience_summary",
                                     KeyOrder(experience), SomeDict(EmptyDict))

C13_SelectAfterExtractionAndSummary ==
    (run = "running" /\ Task("select_resume_content", 0) \in tasks) =>
        /\ \A e \in experience :
              invocations[Task("extract_skills_and_accomplishments", e)] = 1
        /\ \A t \in tasks : t.node # "extract_skills_and_accomplishments"
        /\ select_read.skills_and_accomplishments = skills_and_accomplishments.val
        /\ "create_professional_summary" \notin select_read.together
        /\ invocations[Task("create_professional_summary", 0)] >= 1

\* The nodes of the convergence loop that are running.
ActiveLoopNodes == {t.node : t \in {x \in tasks : x.node \in LoopNodes}}

C15_AssemblesWithoutIdentity ==
    db_user = None =>
        /\ run # "raised"
        /\ (run = "running" /\ Task("generate_resume_pdf", 0) \in tasks) => resume # None

\* C16: transform_user_to_resume_data raises ValueError exactly when the
\* user's first name or last name is empty, and then returns no ResumeData.
C16_RaisesOnMissingName ==
    tr_op = "transform_user_to_resume_data" =>
        /\ tr_raised <=> (tr_user_before.first_name = "" \/ tr_user_before.last_name = "")
        /\ tr_raised => tr_resume = NoResume
        /\ ~tr_raised => tr_resume # NoResume

\* The call raised for a user with a first name and no last name.
C16_Witness ==
    /\ tr_op = "transform_user_to_resume_data"
    /\ tr_user_before.first_name # ""
    /\ tr_user_before.last_name = ""
    /\ tr_raised
    /\ tr_resume = NoResume

\* C17: transform_user_to_resume_data leaves the user record it is given
\* unchanged, also when the user's email is missing.
C17_TransformLeavesInputsUnchanged ==
    tr_op = "transform_user_to_resume_data" => tr_user = tr_user_before

\* C18: the skills of an assembled document contain no two entries that are
\* equal ignoring letter case, and they are the first occurrences of the
\* selected skills, in their order.
C18_SkillsDedupedIgnoringCase ==
    LET Lower(sk) == IF sk = "Python" THEN "python"
                     ELSE IF sk = "SQL" THEN "sql" ELSE sk
        IsFirst(i) == \A j \in 1..(i - 1) :
                          Lower(as_sel.selected_skills[j]) # Lower(as_sel.selected_skills[i])
        firsts == SelectSeq([i \in 1..Len(as_sel.selected_skills) |->
                                [k |-> i, sk |-> as_sel.selected_skills[i]]],
                            LAMBDA x : IsFirst(x.k))
    IN  (as_op = "select_resume_content" /\ as_resume # NoResume) =>
            /\ \A i, j \in 1..Len(as_resume.skills) :
                  i # j => Lower(as_resume.skills[i]) # Lower(as_resume.skills[j])
            /\ as_resume.skills = [i \in 1..Len(firsts) |-> firsts[i].sk]

\* C19: a document assembled in the first cycle has at most max_experiences
\* experience entries, each with at most points_per_experience bullet points,
\* and at most max_skills skills, for the base quotas of its page target
\* (below 1.25 pages: 2, 3, 12; below 1.75: 3, 4, 15; else 4, 5, 18).
C19_WithinQuotas ==
    LET quota == IF as_page_target < 125
                 THEN [max_experiences |-> 2, points_per_experience |-> 3, max_skills |-> 12]
                 ELSE IF as_page_target < 175
                 THEN [max_experiences |-> 3, points_per_experience |-> 4, max_skills |-> 15]
                 ELSE [max_experiences |-> 4, points_per_experience |-> 5, max_skills |-> 18]
    IN  (as_op = "select_resume_content" /\ as_resume # NoResume /\ as_page_length = None) =>
            /\ Len(as_resume.experience) <= quota.max_experiences
            /\ \A i \in 1..Len(as_resume.experience) :
                  as_resume.experience[i].points <= quota.points_per_experience
            /\ Len(as_resume.skills) <= quota.max_skills

\* C20: when the previous cycle measured more than target_pages + 0.3, the
\* next document is assembled under a points-per-experience or an experience
\* quota strictly below the base value of its page target, whatever the
\* feedback: it has fewer experience entries than the base, or every entry has
\* fewer bullet points than the base.
C20_QuotasShrinkAfterOverflow ==
    LET base == IF as_page_target < 125
                THEN [max_experiences |-> 2, points_per_experience |-> 3]
                ELSE IF as_page_target < 175
                THEN [max_experiences |-> 3, points_per_experience |-> 4]
                ELSE [max_experiences |-> 4, points_per_experience |-> 5]
    IN  (/\ as_op = "select_resume_content"
         /\ as_resume # NoResume
         /\ as_page_length # None
         /\ as_page_length > as_page_target + 30) =>
            \/ Len(as_resume.experience) < base.max_experiences
            \/ \A i \in 1..Len(as_resume.experience) :
                  as_resume.experience[i].points < base.points_per_experience

\* C21: no failure of an external collaborator call (text generator, reviewer,
\* typesetter, missing summaries) aborts the run: with a user loaded, the run
\* is never ended by an exception of a node.
C21_NoFailureAbortsTheRun ==
    db_user # None => (run # "raised" /\ raised = "none")

\* C22: after create(obj) returned an object with id i, get_by_id(i) returns
\* that object until delete(i); delete(i) on a stored id returns True and
\* afterwards get_by_id(i) returns None; delete on an id that is not stored
\* returns False and leaves every stored object unchanged.
C22_RepositoryCrud ==
    /\ \A i \in RowIds :
          Repository_get_by_id(rp_table, i) =
              IF i \in DOMAIN rp_live THEN [id |-> i, val |-> rp_live[i]] ELSE NoRow
    /\ (rp_op = "create" /\ ~rp_raised) =>
          /\ rp_obj.id # None
          /\ Repository_get_by_id(rp_table, rp_obj.id) = rp_obj
    /\ (rp_op = "delete" /\ rp_arg \in DOMAIN rp_before) =>
          /\ rp_deleted = TRUE
          /\ Repository_get_by_id(rp_table, rp_arg) = NoRow
    /\ (rp_op = "delete" /\ rp_arg \notin DOMAIN rp_before) =>
          /\ rp_deleted = FALSE
          /\ rp_table = rp_before

\* A stored object was deleted while another one stays stored.
C22_Witness ==
    /\ rp_op = "delete"
    /\ rp_arg \in DOMAIN rp_before
    /\ rp_deleted = TRUE
    /\ DOMAIN rp_table # {}

\* C23: after a successful render the candidate replaces the tracked best if
\* and only if no best exists yet, or its page length is strictly smaller than
\* the best's, or it equals the best's and the cycle is not in fix-up mode;
\* otherwise the tracked best is left unchanged.  This holds in every rendered
\* cycle, accepted or not.
C23_BestReplacedIffRule ==
    [][(lg_cycle_count' = lg_cycle_count + 1 /\ lg_last'.pages # None) =>
          LET pages == lg_last'.pages
              replaces == \/ best_page_length = None
                          \/ pages < best_page_length
                          \/ (pages = best_page_length /\ ~is_optimizing)
          IN  IF replaces
              THEN /\ best_resume_data' = resume_data
                   /\ best_page_length' = pages
                   /\ best_pdf_path' = lg_last'.pdf_path
              ELSE UNCHANGED <<best_resume_data, best_page_length, best_pdf_path>>]_vars

\* A cycle in fix-up mode rendered a candidate as long as the tracked best,
\* and the best recorded earlier was kept.
C23_Witness ==
    /\ lg_last.optimizing
    /\ lg_last.pages # None
    /\ lg_last.pages = best_page_length
    /\ best_resume_data # lg_last.doc
    /\ best_resume_data # NoDoc

\* C24: once a candidate is recorded as best, the recorded document content
\* stays what it was when it was recorded, through all later cycles and
\* optimize_content passes, until a later candidate replaces it.
C24_BestSnapshotUnchanged ==
    best_resume_data # NoDoc =>
        Content(best_resume_data, exp_points) = lg_best_content

\* C25: map_experience_edge dispatches, for every experience id loaded,
\* exactly one extraction task and one summarization task whose
\* current_experience_id is that id, and no task when the mapping is empty; the
\* entries merged from the tasks are keyed by the ids the tasks were dispatched
\* for.
C25_OneTaskPairPerExperience ==
    invocations[Task("read_db_content", 0)] = 1 =>
        /\ db_experience = {} => dispatched = <<>>
        /\ Len(dispatched) = 2 * Cardinality(db_experience)
        /\ \A e \in db_experience, n \in SendNodes :
              Cardinality({k \in 1..Len(dispatched) :
                              /\ dispatched[k].node = n
                              /\ state_objects[dispatched[k].arg] = e}) = 1
        /\ FanInApplied =>
              \A e \in experience :
                 extract_results[e].ok => e \in DOMAIN skills_and_accomplishments.val

\* C26: the tasks dispatched by map_experience_edge share no state object:
\* each Send carries an object of its own, which is not the state the edge was
\* given; the parent state keeps its current_experience_id, and when the
\* dispatch is complete every task carries the id it was created for.
C26_TasksShareNoState ==
    invocations[Task("read_db_content", 0)] = 1 =>
        /\ \A k \in 1..Len(dispatched) : dispatched[k].arg # ParentState
        /\ \A j, k \in 1..Len(dispatched) :
              j # k => dispatched[j].arg # dispatched[k].arg
        /\ state_objects[ParentState] = None
        /\ \A k \in 1..Len(dispatched) :
              state_objects[dispatched[k].arg] = dispatched[k].exp

\* C27: every invocation of provide_resume_feedback increases
\* feedback_loop_iterations by exactly one, whether the reviewer call returns
\* text, returns empty text, or raises.
C27_FeedbackCountsEveryInvocation ==
    [][(pc = "provide_resume_feedback" /\ pc' # pc) =>
          feedback_loop_iterations' = feedback_loop_iterations + 1]_vars

\* provide_resume_feedback has run twice without returning feedback text (the
\* reviewer raised or returned empty text), and the counter is 2.
C27_Witness ==
    /\ pc = "select_resume_content"
    /\ feedback_loop_iterations = 2
    /\ resume_feedback = None

\* C30: when the reviewer call raises or returns empty text,
\* provide_resume_feedback leaves resume_feedback unchanged, so the next
\* selection reads the feedback of the last cycle that returned text, or none
\* when there was no such cycle.
C30_FailedFeedbackKeepsStoredText ==
    /\ [](pc = "select_resume_content" => resume_feedback = fb_last_text)
    /\ [][(pc = "provide_resume_feedback" /\ pc' # pc /\ fb_outcome' \in {"raise", "empty"}) =>
             resume_feedback' = resume_feedback]_vars

\* A cycle returned feedback text, the reviewer call of a later cycle raised
\* or returned empty text, and the next selection is about to read the
\* feedback.
C30_Witness ==
    /\ pc = "select_resume_content"
    /\ fb_outcome \in {"raise", "empty"}
    /\ fb_last_text # None
    /\ fb_last_text < cycle_count

\* The reply means "no feedback": "no", "n" or empty, trimmed, in any case.
DeclinesFeedback(response) == LowerCase(Strip(response)) \in {<<"n", "o">>, <<"n">>, <<>>}

\* C28 as stated: after a reply that is "no", "n" or empty the feedback is
\* cleared and the next step is write_resume; after any other reply the
\* feedback is stored and the next step is write_cover_letter; the loop ends
\* exactly when the user gives such a reply: write_resume is reached only
\* after get_feedback received one.
C28_LoopEndsExactlyOnDecline ==
    /\ (mn_pc \in {"write_resume", "write_cover_letter"} /\ mn_drafts > 0 /\ mn_asked) =>
          IF DeclinesFeedback(mn_reply)
          THEN cover_letter_feedback = NoneText /\ mn_pc = "write_resume"
          ELSE cover_letter_feedback = SomeText(Strip(mn_reply)) /\ mn_pc = "write_cover_letter"
    /\ mn_pc = "write_resume" => (mn_asked /\ DeclinesFeedback(mn_reply))

\* C28 amended: whenever get_feedback asks the user (the cover letter is not
\* empty), a reply that is "no", "n" or empty clears the feedback and leads to
\* write_resume, and any other reply is stored and leads to write_cover_letter
\* and get_feedback again; when the cover letter is empty get_feedback asks
\* nothing and leaves the feedback unchanged, and the edge routes on the
\* feedback stored before.
C28_LoopEndsOnDeclineWhenAsked ==
    /\ [](/\ (mn_pc \in {"write_resume", "write_cover_letter"} /\ mn_drafts > 0 /\ mn_asked) =>
               IF DeclinesFeedback(mn_reply)
               THEN cover_letter_feedback = NoneText /\ mn_pc = "write_resume"
               ELSE /\ cover_letter_feedback = SomeText(Strip(mn_reply))
                    /\ mn_pc = "write_cover_letter"
          /\ (mn_pc = "write_resume" /\ mn_asked) => DeclinesFeedback(mn_reply)
          /\ (mn_pc = "write_resume" /\ ~mn_asked) =>
               (cover_letter \in {None, 0}
                /\ route_cover_letter_feedback_edge(cover_letter_feedback) = "write_resume"))
    /\ [][(mn_pc = "write_cover_letter" /\ mn_pc' # mn_pc) =>
              mn_pc' \in {"get_feedback", "raised"}]_vars
    /\ [][(mn_pc = "get_feedback" /\ mn_pc' # mn_pc /\ ~mn_asked') =>
              cover_letter_feedback' = cover_letter_feedback]_vars

\* The user gave feedback on the first draft and declined, with a capital and
\* a leading blank, on the second.
C28_Witness ==
    /\ mn_pc = "write_resume"
    /\ mn_drafts = 2
    /\ mn_asked
    /\ mn_reply = <<" ", "N", "o">>
    /\ cover_letter_feedback = NoneText

\* C29: across the cycles of a run best_page_length never increases, after
\* every successful render it is at most the page length just rendered, and
\* best_resume_data, best_page_length and best_pdf_path are only updated
\* together, from the cycle being rendered.
C29_BestLengthMonotone ==
    [][/\ best_page_length # None =>
            (best_page_length' # None /\ best_page_length' <= best_page_length)
       /\ (lg_cycle_count' = lg_cycle_count + 1 /\ lg_last'.pages # None) =>
            (best_page_length' # None /\ best_page_length' <= lg_last'.pages)
       /\ (\/ best_resume_data' # best_resume_data
           \/ best_page_length' # best_page_length
           \/ best_pdf_path' # best_pdf_path) =>
            /\ lg_cycle_count' = lg_cycle_count + 1
            /\ best_resume_data' = resume_data
            /\ best_page_length' = lg_last'.pages
            /\ best_pdf_path' = lg_last'.pdf_path]_vars

\* A later cycle rendered more pages than the tracked best, which was kept.
C29_Witness ==
    /\ lg_last.pages # None
    /\ best_page_length # None
    /\ lg_last.pages > best_page_length
    /\ best_pdf_path # lg_last.pdf_path
    /\ lg_cycle_count > 1

====
